---- MODULE Spec2Model ----
(***************************************************************************)
(* Driver application: the live delivery-offer list of HomeScreen and the  *)
(* location-tracking hook useLocationTracking.                             *)
(*                                                                         *)
(* Spec      : HomeScreen (offer list, offer socket, fetches, accepts,     *)
(*             online toggle).                                             *)
(* SpecTrack : the useLocationTracking instances of HomeScreen and of      *)
(*             CurrentDeliveryScreen (tracking socket, position watch).    *)
(* SpecSampler : one startTracking call followed step by step, with the    *)
(*             positions the sensor reports.                               *)
(* SpecDelivery : CurrentDeliveryScreen (status advance, cancel, alerts)   *)
(*             with the response interceptor of the REST client.           *)
(* SpecReads : the read requests of HomeScreen, EarningsScreen and         *)
(*             HistoryScreen.                                              *)
(* SpecAuth  : AuthProvider (login, logout, toggleOnline) and the token    *)
(*             each socket presents at its handshake.                      *)
(*                                                                         *)
(* React runs a state change, the re-render and the effects that depend on *)
(* the changed value without any other callback in between; each action    *)
(* below is one such callback together with the effects it triggers.       *)
(* An `await` ends an action: the continuation is a separate action.       *)
(***************************************************************************)
EXTENDS Integers, Sequences, FiniteSets, TLC

\* Order ids the backend may offer.
Ids == {"A", "B"}

\* Largest number of available-delivery requests in flight at once.
MaxFetch == 2

\* Largest number of accept requests issued in one run.
MaxAccepts == 2

\* Largest number of CurrentDeliveryScreen instances mounted in one run.
MaxCurrent == 1

\* Largest number of times tracking is switched on in one run by going online
\* or by mounting CurrentDeliveryScreen.
MaxActivations == 2

VARIABLES
    \* ---- AuthProvider (session store), online toggle, navigation
    driverId,          \* driver?.id || null: "null" or the driver's id
    isOnline,          \* useAuth.tsx:24
    isTogglingOnline,  \* part_003:32
    toggleReq,         \* value asked of PATCH /drivers/status: "none", "on", "off"
    screen,            \* top of the navigation stack: "Main", "CurrentDelivery"
    \* ---- HomeScreen
    deliveries,        \* part_003:30, sequence of order ids, head first
    isRefreshing,      \* part_003:31, the pull-to-refresh request is in flight
    fetchInFlight,     \* GET /drivers/deliveries/available issued by the effect
    offerSocket,       \* useDriverSocket socket: "none", "connecting", "connected"
    acceptPending,     \* [Ids -> Nat] accept requests awaiting their response
    navigated,         \* [Ids -> Nat] navigation.navigate('CurrentDelivery') calls
    alerted,           \* [Ids -> Nat] Alert.alert('Erro', ...) of a failed accept
    \* ---- observation of the run (not program state)
    race,              \* [Ids -> progress of the first accept against deliveryTaken]
    lastEvent,         \* the offer event handled last, if no handler ran since
    \* ---- useLocationTracking, one record per mounted or once-mounted instance
    hooks,             \* [Insts -> state of that useLocationTracking instance]
    current,           \* the mounted CurrentDeliveryScreen instance, 0 when none
    created,           \* CurrentDeliveryScreen instances mounted so far
    delivery,          \* CurrentDeliveryScreen: "null", "loading", "loaded"
    acceptRequested,   \* an accept request of HomeScreen awaits its response
    activations,       \* times tracking was switched on by going online or a mount
    emitted,           \* messages the last step emitted on a tracking socket
    \* ---- one startTracking call of one hook, observed step by step
    sampler,           \* the call, the hook state it writes, the sensor's positions
    \* ---- screens driven by REST calls
    cds,               \* CurrentDeliveryScreen: its state, its request, its alert
    session,           \* AuthProvider user and the credentials kept in AsyncStorage
    earnings,          \* EarningsScreen: summary, todayEarnings, flags, request
    history            \* HistoryScreen: deliveries, flags, request

sessionVars == <<driverId, isOnline, isTogglingOnline, toggleReq, screen>>
offerVars == <<deliveries, isRefreshing, fetchInFlight, offerSocket, acceptPending,
               navigated, alerted, race, lastEvent>>
trackVars == <<hooks, current, created, delivery, acceptRequested, activations, emitted>>
samplerVars == <<sampler>>
screenVars == <<cds, session, earnings, history>>
vars == <<sessionVars, offerVars, trackVars, samplerVars, screenVars>>

----------------------------------------------------------------------------
\* Helpers

Range(s) == {s[i] : i \in 1..Len(s)}

NoDup(s) == \A i, j \in 1..Len(s) : i # j => s[i] # s[j]

RECURSIVE Filter(_, _)
\* prev.filter((d) => d.id !== orderId)
Filter(s, id) ==
    IF s = <<>> THEN <<>>
    ELSE IF Head(s) = id THEN Filter(Tail(s), id)
         ELSE <<Head(s)>> \o Filter(Tail(s), id)

\* What GET /drivers/deliveries/available may answer: the backend lists each
\* available order once.
AvailableLists ==
    {s \in UNION {[1..n -> Ids] : n \in 0..Cardinality(Ids)} : NoDup(s)}

RECURSIVE SumOver(_, _)
SumOver(f, S) ==
    IF S = {} THEN 0
    ELSE LET x == CHOOSE y \in S : TRUE IN f[x] + SumOver(f, S \ {x})

\* Accept requests issued so far.
AcceptsIssued ==
    SumOver(acceptPending, Ids) + SumOver(navigated, Ids) + SumOver(alerted, Ids)

FetchesInFlight == fetchInFlight + (IF isRefreshing THEN 1 ELSE 0)

----------------------------------------------------------------------------
\* HomeScreen: list handlers (the state updaters passed to setDeliveries)

\* Variant without the `prev.some(...)` check: always prepend.
handleNewAvailableDelivery_NoCheck(prev, id) == <<id>> \o prev

\* handleNewAvailableDelivery: ignore a known id, otherwise prepend.
handleNewAvailableDelivery(prev, id) ==
    IF \E i \in 1..Len(prev) : prev[i] = id THEN prev ELSE <<id>> \o prev

\* Variant that vibrates for every newAvailableDelivery event.
vibrate_Always(prev, id) == TRUE

\* Whether the updater of handleNewAvailableDelivery calls Vibration.vibrate:
\* the call sits after the early return for a known id.  The vibration
\* changes nothing in the state followed here.
vibrate(prev, id) == ~(\E i \in 1..Len(prev) : prev[i] = id)

\* Variant with the filter predicate inverted (=== for !==).
handleDeliveryTaken_Inverted(prev, id) == SelectSeq(prev, LAMBDA d : d = id)

\* handleDeliveryTaken: drop every entry with that id.
handleDeliveryTaken(prev, id) == Filter(prev, id)

\* The driverId prop HomeScreen hands to useDriverSocket:
\* isOnline ? driver?.id : undefined.
OfferSocketDriverId(online, id) == IF online THEN id ELSE "null"

\* Variant that keeps a socket for a known driver whatever isOnline is.
useDriverSocketEffect_IgnoresOnline(online, id) ==
    IF id = "null" THEN "none" ELSE "connecting"

\* useDriverSocket effect after a change of its driverId prop: the cleanup
\* disconnects the old socket, the body opens a new one when the id is set.
useDriverSocketEffect(online, id) ==
    IF OfferSocketDriverId(online, id) = "null" THEN "none" ELSE "connecting"

\* Observation: the offer event just handled, and whether its id was listed.
NoEvent == [event |-> "none", id |-> "none", present |-> FALSE]

OfferEvent(e, a) == [event |-> e, id |-> a, present |-> a \in Range(deliveries)]

\* Observation: progress of the first accept of `a` against deliveryTaken(a).
RaceOnAccept(a) ==
    IF race[a] = "none" THEN [race EXCEPT ![a] = "accepting"] ELSE race

RaceOnTaken(a) ==
    IF race[a] = "accepting" THEN [race EXCEPT ![a] = "taken"]
    ELSE IF race[a] = "resolved" THEN [race EXCEPT ![a] = "done"]
    ELSE race

RaceOnResponse(a) ==
    IF race[a] = "accepting" THEN [race EXCEPT ![a] = "resolved"]
    ELSE IF race[a] = "taken" THEN [race EXCEPT ![a] = "done"]
    ELSE race

----------------------------------------------------------------------------
\* Initial state of the HomeScreen part: HomeScreen has just mounted,
\* AuthProvider loaded the driver and isOnline from the profile, and the
\* mount effects have run.

InitSession ==
    /\ driverId = "d1"
    /\ isOnline \in BOOLEAN
    /\ isTogglingOnline = FALSE
    /\ toggleReq = "none"
    /\ screen = "Main"

InitOffers ==
    /\ deliveries = <<>>
    /\ isRefreshing = FALSE
    /\ fetchInFlight = (IF isOnline THEN 1 ELSE 0)
    /\ offerSocket = useDriverSocketEffect(isOnline, driverId)
    /\ acceptPending = [a \in Ids |-> 0]
    /\ navigated = [a \in Ids |-> 0]
    /\ alerted = [a \in Ids |-> 0]
    /\ race = [a \in Ids |-> "none"]
    /\ lastEvent = NoEvent

----------------------------------------------------------------------------
\* Offer socket (useDriverSocket)

\* socket 'connect': joinDriver is emitted, the server starts pushing events.
OfferSocketConnect ==
    /\ offerSocket = "connecting"
    /\ offerSocket' = "connected"
    /\ lastEvent' = NoEvent
    /\ UNCHANGED <<samplerVars, screenVars, sessionVars, trackVars, deliveries, isRefreshing, fetchInFlight,
                   acceptPending, navigated, alerted, race>>

\* socket 'disconnect' (network loss): socket.io reconnects by itself.
OfferSocketDrop ==
    /\ offerSocket = "connected"
    /\ offerSocket' = "connecting"
    /\ lastEvent' = NoEvent
    /\ UNCHANGED <<samplerVars, screenVars, sessionVars, trackVars, deliveries, isRefreshing, fetchInFlight,
                   acceptPending, navigated, alerted, race>>

\* 'newAvailableDelivery' event -> onNewAvailableDelivery(data.order)
NewAvailableDelivery(a) ==
    /\ offerSocket = "connected"
    /\ deliveries' = handleNewAvailableDelivery(deliveries, a)
    /\ lastEvent' = OfferEvent("newAvailableDelivery", a)
    /\ UNCHANGED <<samplerVars, screenVars, sessionVars, trackVars, isRefreshing, fetchInFlight, offerSocket,
                   acceptPending, navigated, alerted, race>>

\* 'deliveryTaken' event -> onDeliveryTaken(data.orderId)
DeliveryTaken(a) ==
    /\ offerSocket = "connected"
    /\ deliveries' = handleDeliveryTaken(deliveries, a)
    /\ race' = RaceOnTaken(a)
    /\ lastEvent' = OfferEvent("deliveryTaken", a)
    /\ UNCHANGED <<samplerVars, screenVars, sessionVars, trackVars, isRefreshing, fetchInFlight, offerSocket,
                   acceptPending, navigated, alerted>>

----------------------------------------------------------------------------
\* fetchDeliveries

\* handleRefresh: pull-to-refresh on the FlatList, which is rendered only
\* while online with a non-empty list; RefreshControl is busy while
\* isRefreshing.  fetchDeliveries was created with isOnline = TRUE, so it
\* issues the request.
HandleRefresh ==
    /\ screen = "Main"
    /\ isOnline
    /\ deliveries # <<>>
    /\ ~isRefreshing
    /\ FetchesInFlight < MaxFetch
    /\ isRefreshing' = TRUE
    /\ lastEvent' = NoEvent
    /\ UNCHANGED <<samplerVars, screenVars, sessionVars, trackVars, deliveries, fetchInFlight, offerSocket,
                   acceptPending, navigated, alerted, race>>

\* Variant that adds the response to the list instead of replacing it.
fetchDeliveriesResolved_Append(prev, data) == prev \o data

\* setDeliveries(response.data || []) of fetchDeliveries.
fetchDeliveriesResolved(prev, data) == data

\* The catch of fetchDeliveries: setDeliveries([]).
fetchDeliveriesRejected(prev) == <<>>

\* The response of a request issued by the effect.
FetchResolve(data) ==
    /\ fetchInFlight > 0
    /\ fetchInFlight' = fetchInFlight - 1
    /\ deliveries' = fetchDeliveriesResolved(deliveries, data)
    /\ lastEvent' = NoEvent
    /\ UNCHANGED <<samplerVars, screenVars, sessionVars, trackVars, isRefreshing, offerSocket, acceptPending,
                   navigated, alerted, race>>

\* The request issued by the effect fails.
FetchReject ==
    /\ fetchInFlight > 0
    /\ fetchInFlight' = fetchInFlight - 1
    /\ deliveries' = fetchDeliveriesRejected(deliveries)
    /\ lastEvent' = NoEvent
    /\ UNCHANGED <<samplerVars, screenVars, sessionVars, trackVars, isRefreshing, offerSocket, acceptPending,
                   navigated, alerted, race>>

\* The response of the refresh request, then setIsRefreshing(false).
RefreshResolve(data) ==
    /\ isRefreshing
    /\ isRefreshing' = FALSE
    /\ deliveries' = fetchDeliveriesResolved(deliveries, data)
    /\ lastEvent' = NoEvent
    /\ UNCHANGED <<samplerVars, screenVars, sessionVars, trackVars, fetchInFlight, offerSocket, acceptPending,
                   navigated, alerted, race>>

RefreshReject ==
    /\ isRefreshing
    /\ isRefreshing' = FALSE
    /\ deliveries' = fetchDeliveriesRejected(deliveries)
    /\ lastEvent' = NoEvent
    /\ UNCHANGED <<samplerVars, screenVars, sessionVars, trackVars, fetchInFlight, offerSocket, acceptPending,
                   navigated, alerted, race>>

----------------------------------------------------------------------------
\* Online toggle

\* Variant in which the toggle also waits for a position and a connected
\* tracking socket.
toggleDisabled_NeedsTracking ==
    isTogglingOnline \/ hooks[0].error # "null" \/ hooks[0].socketRef = "connecting"

\* The `disabled` prop of both toggle buttons of HomeScreen.
toggleDisabled == isTogglingOnline

\* handleToggleOnline up to `await toggleOnline()`; toggleOnline asks for
\* !isOnline.  The button is disabled while isTogglingOnline.
HandleToggleOnline ==
    /\ screen = "Main"
    /\ ~toggleDisabled
    /\ isTogglingOnline' = TRUE
    /\ toggleReq' = (IF isOnline THEN "off" ELSE "on")
    /\ UNCHANGED <<samplerVars, screenVars, driverId, isOnline, screen, offerVars, trackVars>>

\* PATCH /drivers/status failed: alert, setIsTogglingOnline(false).
ToggleOnlineReject ==
    /\ toggleReq # "none"
    /\ isTogglingOnline' = FALSE
    /\ toggleReq' = "none"
    /\ UNCHANGED <<samplerVars, screenVars, driverId, isOnline, screen, offerVars, trackVars>>

\* PATCH /drivers/status answered: setIsOnline(response.data.isOnline), then
\* setIsTogglingOnline(false) in the finally of handleToggleOnline.
toggleOnlineResolved ==
    /\ toggleReq # "none"
    /\ isOnline' = (toggleReq = "on")
    /\ isTogglingOnline' = FALSE
    /\ toggleReq' = "none"
    /\ UNCHANGED <<driverId, screen>>

\* fetchDeliveries as the effect calls it after isOnline changed to `online`:
\* offline clears the list, online issues a request.
fetchDeliveriesList(online, prev) == IF online THEN prev ELSE <<>>

fetchDeliveriesRequests(online, n) == IF online THEN n + 1 ELSE n

\* The toggle answered, with the effects of HomeScreen that depend on
\* isOnline: fetchDeliveries and useDriverSocket.
ToggleOnlineResolve ==
    /\ toggleOnlineResolved
    /\ isOnline' => FetchesInFlight < MaxFetch
    /\ IF isOnline' # isOnline
       THEN /\ deliveries' = fetchDeliveriesList(isOnline', deliveries)
            /\ fetchInFlight' = fetchDeliveriesRequests(isOnline', fetchInFlight)
            /\ offerSocket' = useDriverSocketEffect(isOnline', driverId)
       ELSE UNCHANGED <<deliveries, fetchInFlight, offerSocket>>
    /\ lastEvent' = NoEvent
    /\ UNCHANGED <<samplerVars, screenVars, trackVars, isRefreshing, acceptPending, navigated, alerted, race>>

----------------------------------------------------------------------------
\* Accept

\* handleAcceptDelivery(item.id) up to `await api.post(...)`: a tap on a card
\* of the rendered list.
HandleAcceptDelivery(a) ==
    /\ screen = "Main"
    /\ isOnline
    /\ a \in Range(deliveries)
    /\ AcceptsIssued < MaxAccepts
    /\ acceptPending' = [acceptPending EXCEPT ![a] = @ + 1]
    /\ race' = RaceOnAccept(a)
    /\ lastEvent' = NoEvent
    /\ UNCHANGED <<samplerVars, screenVars, sessionVars, trackVars, deliveries, isRefreshing, fetchInFlight,
                   offerSocket, navigated, alerted>>

\* The list after the accept request for `a` succeeded: the try block of
\* handleAcceptDelivery navigates and leaves the list alone.
acceptSuccessList(prev, a) == prev

\* The list after the accept request for `a` failed: the catch block alerts
\* and leaves the list alone.
acceptFailureList(prev, a) == prev

\* POST .../accept succeeded: navigation.navigate('CurrentDelivery', ...).
AcceptResolve(a) ==
    /\ acceptPending[a] > 0
    /\ acceptPending' = [acceptPending EXCEPT ![a] = @ - 1]
    /\ navigated' = [navigated EXCEPT ![a] = @ + 1]
    /\ deliveries' = acceptSuccessList(deliveries, a)
    /\ screen' = "CurrentDelivery"
    /\ race' = RaceOnResponse(a)
    /\ lastEvent' = NoEvent
    /\ UNCHANGED <<samplerVars, screenVars, driverId, isOnline, isTogglingOnline, toggleReq, trackVars,
                   isRefreshing, fetchInFlight, offerSocket, alerted>>

\* POST .../accept failed (taken by another driver, network): Alert.alert.
AcceptReject(a) ==
    /\ acceptPending[a] > 0
    /\ acceptPending' = [acceptPending EXCEPT ![a] = @ - 1]
    /\ alerted' = [alerted EXCEPT ![a] = @ + 1]
    /\ deliveries' = acceptFailureList(deliveries, a)
    /\ race' = RaceOnResponse(a)
    /\ lastEvent' = NoEvent
    /\ UNCHANGED <<samplerVars, screenVars, sessionVars, trackVars, isRefreshing, fetchInFlight, offerSocket,
                   navigated>>

\* CurrentDeliveryScreen returns to the tabs: navigation.navigate('Main') or
\* navigation.goBack().  HomeScreen stayed mounted underneath.
NavigateMain ==
    /\ screen = "CurrentDelivery"
    /\ screen' = "Main"
    /\ UNCHANGED <<samplerVars, screenVars, driverId, isOnline, isTogglingOnline, toggleReq, offerVars, trackVars>>

----------------------------------------------------------------------------
\* useLocationTracking
\*
\* Instance 0 is the hook of HomeScreen, instance k >= 1 the hook of the k-th
\* CurrentDeliveryScreen.  An instance keeps its refs and its suspended async
\* calls after it unmounts: nothing in the hook cancels them.

Home == 0

Insts == 0..MaxCurrent

\* The awaits of startTracking: foreground permission, background
\* permission, getCurrentPositionAsync, watchPositionAsync.
Phases == {"fg", "bg", "pos", "watch"}

NewHook ==
    [ mounted       |-> FALSE,
      socketRef     |-> "null",    \* "null", or the state of the socket held
      orphanSockets |-> 0,         \* open sockets no ref holds any more
      orphanConnecting |-> 0,      \* those of them that have not connected yet
      watchIdRef    |-> FALSE,     \* holds a live subscription
      orphanWatches |-> 0,         \* live subscriptions no ref holds any more
      connects      |-> 0,         \* connectSocket calls awaiting the token
      starts        |-> [p \in Phases |-> 0],  \* startTracking calls, by await
      isTracking    |-> FALSE,
      error         |-> "null",
      location      |-> FALSE ]    \* location state is non-null

\* The isOnline prop of an instance: the session flag in HomeScreen, the
\* literal `true` in CurrentDeliveryScreen.
HookOnline(i, online) == IF i = Home THEN online ELSE TRUE

\* The activeOrderId prop: undefined in HomeScreen, delivery?.id in
\* CurrentDeliveryScreen.
HookOrder(i, dl) == IF i # Home /\ dl = "loaded" THEN "order" ELSE "null"

OpenSockets(h) == (IF h.socketRef # "null" THEN 1 ELSE 0) + h.orphanSockets

LiveWatches(h) == (IF h.watchIdRef THEN 1 ELSE 0) + h.orphanWatches

Suspended(h) ==
    h.connects + h.starts["fg"] + h.starts["bg"] + h.starts["pos"] + h.starts["watch"]

\* connectSocket up to `await AsyncStorage.getItem(...)`.
connectSocket(h, id) ==
    IF id = "null" THEN h ELSE [h EXCEPT !.connects = @ + 1]

\* disconnectSocket
disconnectSocket(h) ==
    IF h.socketRef # "null" THEN [h EXCEPT !.socketRef = "null"] ELSE h

\* startTracking up to `await Location.requestForegroundPermissionsAsync()`.
startTracking(h) == [h EXCEPT !.starts["fg"] = @ + 1]

\* stopTracking
stopTracking(h) ==
    [(IF h.watchIdRef THEN [h EXCEPT !.watchIdRef = FALSE] ELSE h)
        EXCEPT !.isTracking = FALSE]

\* What the two release calls may do: both return, or
\* watchIdRef.current.remove() throws, or socketRef.current.disconnect()
\* throws.  A call that throws has not released its resource.
ReleaseFailures == {"none", "remove", "disconnect"}

\* `stopTracking(); disconnectSocket();` as the online effect runs it, in
\* its else branch and in its cleanup: the exception of a call that throws
\* leaves the sequence, so nothing after that call runs.
release(h, f) ==
    IF f = "remove" /\ h.watchIdRef THEN h
    ELSE IF f = "disconnect" /\ stopTracking(h).socketRef # "null" THEN stopTracking(h)
    ELSE disconnectSocket(stopTracking(h))

\* Outcome f can happen to the release of h: the call it names is made.
CanFail(h, f) ==
    \/ f = "none"
    \/ f = "remove" /\ h.watchIdRef
    \/ f = "disconnect" /\ h.socketRef # "null"

\* The body of the online effect.
onlineEffect(h, online, id, f) ==
    IF online /\ id # "null"
    THEN startTracking(connectSocket(h, id))
    ELSE release(h, f)

\* The cleanup the online effect returned.
onlineCleanup(h, f) == release(h, f)

\* A dependency of the online effect changed: cleanup, then the body.
rerunOnlineEffect(h, online, id, f) ==
    onlineEffect(onlineCleanup(h, f), online, id, f)

Activates(online, id) == online /\ id # "null"

\* Variant without the `connected` check: emit on whatever socket the ref holds.
sendLocationUpdate_NoConnectedCheck(h, i, id) ==
    IF h.socketRef # "null" /\ id # "null"
    THEN <<[hook |-> i, event |-> "updateLocation", socket |-> "ref"]>>
    ELSE <<>>

\* sendLocationUpdate: the messages it emits, all on socketRef.current.
sendLocationUpdate(h, i, id) ==
    IF h.socketRef = "connected" /\ id # "null"
    THEN <<[hook |-> i, event |-> "updateLocation", socket |-> "ref"]>>
    ELSE <<>>

\* The 'connect' handler connectSocket registers on the socket it created:
\* socketRef.current?.emit('driverConnect', driverId).  The message goes to
\* the socket the ref holds when the handler runs.
onConnect(h, i) ==
    IF h.socketRef # "null"
    THEN <<[hook |-> i, event |-> "driverConnect", socket |-> "ref"]>>
    ELSE <<>>

\* The active-order effect, run after a render in which activeOrderId,
\* location or sendLocationUpdate changed.
activeOrderEffect(h, i, id, order) ==
    IF h.mounted /\ order # "null" /\ h.location
    THEN sendLocationUpdate(h, i, id)
    ELSE <<>>

\* setLocation, setError, setIsTracking: without effect once unmounted.
setLocation(h) == IF h.mounted THEN [h EXCEPT !.location = TRUE] ELSE h

setError(h, e) == IF h.mounted THEN [h EXCEPT !.error = e] ELSE h

setIsTracking(h, b) == IF h.mounted THEN [h EXCEPT !.isTracking = b] ELSE h

\* A position sample arrives (initial fetch or watch callback):
\* setLocation, sendLocationUpdate, then the active-order effect of the
\* render that setLocation caused.
onSample(h) == setLocation(h)

sampleMessages(h, i, id, order) ==
    sendLocationUpdate(h, i, id) \o activeOrderEffect(setLocation(h), i, id, order)

InitTrack ==
    /\ hooks = [i \in Insts |->
                  IF i = Home
                  THEN onlineEffect([NewHook EXCEPT !.mounted = TRUE], isOnline, driverId,
                                    "none")
                  ELSE NewHook]
    /\ current = 0
    /\ created = 0
    /\ delivery = "null"
    /\ acceptRequested = FALSE
    /\ activations = (IF Activates(isOnline, driverId) THEN 1 ELSE 0)
    /\ emitted = <<>>

TrackFrame == UNCHANGED <<current, created, delivery, acceptRequested, activations>>

\* ---- connectSocket after the await

\* The token was read: io(...) opens a socket and socketRef.current takes it;
\* a socket the ref held before stays open.
ConnectTokenRead(i) ==
    /\ hooks[i].connects > 0
    /\ hooks' = [hooks EXCEPT ![i] =
                   [@ EXCEPT !.connects = @ - 1,
                             !.orphanSockets =
                                 IF hooks[i].socketRef # "null" THEN @ + 1 ELSE @,
                             !.orphanConnecting =
                                 IF hooks[i].socketRef = "connecting" THEN @ + 1 ELSE @,
                             !.socketRef = "connecting"]]
    /\ emitted' = <<>>
    /\ TrackFrame
    /\ UNCHANGED <<samplerVars, screenVars, sessionVars, offerVars>>

\* AsyncStorage.getItem rejected: catch -> setError('Failed to connect').
ConnectTokenFail(i) ==
    /\ hooks[i].connects > 0
    /\ hooks' = [hooks EXCEPT ![i] =
                   setError([@ EXCEPT !.connects = @ - 1], "Failed to connect")]
    /\ emitted' = <<>>
    /\ TrackFrame
    /\ UNCHANGED <<samplerVars, screenVars, sessionVars, offerVars>>

\* socket 'connect' of the socket the ref holds: emit driverConnect.
TrackingSocketConnect(i) ==
    /\ hooks[i].socketRef = "connecting"
    /\ hooks' = [hooks EXCEPT ![i].socketRef = "connected"]
    /\ emitted' = onConnect(hooks'[i], i)
    /\ TrackFrame
    /\ UNCHANGED <<samplerVars, screenVars, sessionVars, offerVars>>

\* socket 'connect' of a socket the ref no longer holds: its handler emits
\* on the socket the ref holds now, if any.
OrphanSocketConnect(i) ==
    /\ hooks[i].orphanConnecting > 0
    /\ hooks' = [hooks EXCEPT ![i].orphanConnecting = @ - 1]
    /\ emitted' = onConnect(hooks[i], i)
    /\ TrackFrame
    /\ UNCHANGED <<samplerVars, screenVars, sessionVars, offerVars>>

\* socket 'disconnect' by network loss: socket.io reconnects by itself.
TrackingSocketDrop(i) ==
    /\ hooks[i].socketRef = "connected"
    /\ hooks' = [hooks EXCEPT ![i].socketRef = "connecting"]
    /\ emitted' = <<>>
    /\ TrackFrame
    /\ UNCHANGED <<samplerVars, screenVars, sessionVars, offerVars>>

\* ---- startTracking after each await

\* requestForegroundPermissionsAsync answered.
StartForeground(i, granted) ==
    /\ hooks[i].starts["fg"] > 0
    /\ hooks' = [hooks EXCEPT ![i] =
                   IF granted
                   THEN [@ EXCEPT !.starts["fg"] = @ - 1, !.starts["bg"] = @ + 1]
                   ELSE setError([@ EXCEPT !.starts["fg"] = @ - 1],
                                 "Location permission denied")]
    /\ emitted' = <<>>
    /\ TrackFrame
    /\ UNCHANGED <<samplerVars, screenVars, sessionVars, offerVars>>

\* requestBackgroundPermissionsAsync answered or threw: tracking goes on.
StartBackground(i) ==
    /\ hooks[i].starts["bg"] > 0
    /\ hooks' = [hooks EXCEPT ![i] =
                   [@ EXCEPT !.starts["bg"] = @ - 1, !.starts["pos"] = @ + 1]]
    /\ emitted' = <<>>
    /\ TrackFrame
    /\ UNCHANGED <<samplerVars, screenVars, sessionVars, offerVars>>

\* getCurrentPositionAsync answered: setLocation, sendLocationUpdate.
StartPosition(i) ==
    /\ hooks[i].starts["pos"] > 0
    /\ hooks' = [hooks EXCEPT ![i] =
                   onSample([@ EXCEPT !.starts["pos"] = @ - 1, !.starts["watch"] = @ + 1])]
    /\ emitted' = sampleMessages(hooks[i], i, driverId, HookOrder(i, delivery))
    /\ TrackFrame
    /\ UNCHANGED <<samplerVars, screenVars, sessionVars, offerVars>>

\* watchPositionAsync answered: watchIdRef.current takes the subscription (one
\* the ref held before stays live), setIsTracking(true), setError(null).
StartWatch(i) ==
    /\ hooks[i].starts["watch"] > 0
    /\ hooks' = [hooks EXCEPT ![i] =
                   setError(setIsTracking(
                       [@ EXCEPT !.starts["watch"] = @ - 1,
                                 !.orphanWatches = IF hooks[i].watchIdRef THEN @ + 1 ELSE @,
                                 !.watchIdRef = TRUE],
                       TRUE), "null")]
    /\ emitted' = <<>>
    /\ TrackFrame
    /\ UNCHANGED <<samplerVars, screenVars, sessionVars, offerVars>>

\* An awaited call of startTracking threw (not the background request, which
\* has its own try): catch -> setError('Failed to start tracking').
StartFail(i, p) ==
    /\ p \in {"fg", "pos", "watch"}
    /\ hooks[i].starts[p] > 0
    /\ hooks' = [hooks EXCEPT ![i] =
                   setError([@ EXCEPT !.starts[p] = @ - 1], "Failed to start tracking")]
    /\ emitted' = <<>>
    /\ TrackFrame
    /\ UNCHANGED <<samplerVars, screenVars, sessionVars, offerVars>>

\* The callback of a live subscription: setLocation, sendLocationUpdate.
WatchCallback(i) ==
    /\ LiveWatches(hooks[i]) > 0
    /\ hooks' = [hooks EXCEPT ![i] = onSample(@)]
    /\ emitted' = sampleMessages(hooks[i], i, driverId, HookOrder(i, delivery))
    /\ TrackFrame
    /\ UNCHANGED <<samplerVars, screenVars, sessionVars, offerVars>>

\* ---- what changes the props of the instances

\* The toggle answered, with the online effect of the hook of HomeScreen.
TrackToggleOnlineResolve(f) ==
    /\ toggleOnlineResolved
    /\ CanFail(hooks[Home], f)
    /\ isOnline' = isOnline => f = "none"
    /\ Activates(isOnline', driverId) /\ isOnline' # isOnline
           => activations < MaxActivations
    /\ IF isOnline' # isOnline
       THEN /\ hooks' = [hooks EXCEPT ![Home] = rerunOnlineEffect(@, isOnline', driverId, f)]
            /\ activations' =
                   IF Activates(isOnline', driverId) THEN activations + 1 ELSE activations
       ELSE UNCHANGED <<hooks, activations>>
    /\ emitted' = <<>>
    /\ UNCHANGED <<samplerVars, screenVars, current, created, delivery, acceptRequested, offerVars>>

\* A tap on an offer card of HomeScreen: the accept request is issued.
AcceptTap ==
    /\ screen = "Main"
    /\ isOnline
    /\ ~acceptRequested
    /\ acceptRequested' = TRUE
    /\ emitted' = <<>>
    /\ UNCHANGED <<samplerVars, screenVars, sessionVars, offerVars, hooks, current, created, delivery, activations>>

\* The accept request failed: alert.
AcceptFail ==
    /\ acceptRequested
    /\ acceptRequested' = FALSE
    /\ emitted' = <<>>
    /\ UNCHANGED <<samplerVars, screenVars, sessionVars, offerVars, hooks, current, created, delivery, activations>>

\* The accept request succeeded: navigate('CurrentDelivery') mounts a
\* CurrentDeliveryScreen, whose hook runs its online effect with
\* isOnline = true and whose mount effect calls fetchDelivery.
AcceptNavigate ==
    /\ acceptRequested
    /\ current = 0
    /\ created < MaxCurrent
    /\ Activates(TRUE, driverId) => activations < MaxActivations
    /\ acceptRequested' = FALSE
    /\ screen' = "CurrentDelivery"
    /\ created' = created + 1
    /\ current' = created + 1
    /\ delivery' = "loading"
    /\ hooks' = [hooks EXCEPT ![created + 1] =
                   onlineEffect([NewHook EXCEPT !.mounted = TRUE], TRUE, driverId, "none")]
    /\ activations' = IF Activates(TRUE, driverId) THEN activations + 1 ELSE activations
    /\ emitted' = <<>>
    /\ UNCHANGED <<samplerVars, screenVars, driverId, isOnline, isTogglingOnline, toggleReq, offerVars>>

\* fetchDelivery answered: setDelivery changes activeOrderId, so
\* sendLocationUpdate and startTracking are new functions and the online
\* effect runs again; then the active-order effect.
CurrentDeliveryLoaded(f) ==
    /\ current # 0
    /\ CanFail(hooks[current], f)
    /\ delivery = "loading"
    /\ delivery' = "loaded"
    /\ hooks' = [hooks EXCEPT ![current] = rerunOnlineEffect(@, TRUE, driverId, f)]
    /\ emitted' = activeOrderEffect(hooks'[current], current, driverId, "order")
    /\ UNCHANGED <<samplerVars, screenVars, sessionVars, offerVars, current, created, acceptRequested, activations>>

\* The screen unmounts (navigate('Main') after delivery or cancel, or goBack
\* when fetchDelivery failed): the cleanup of the online effect runs.
UnmountCurrentDelivery(f) ==
    /\ current # 0
    /\ CanFail(hooks[current], f)
    /\ screen' = "Main"
    /\ hooks' = [hooks EXCEPT ![current] = [onlineCleanup(@, f) EXCEPT !.mounted = FALSE]]
    /\ current' = 0
    /\ delivery' = "null"
    /\ emitted' = <<>>
    /\ UNCHANGED <<samplerVars, screenVars, driverId, isOnline, isTogglingOnline, toggleReq, offerVars,
                   created, acceptRequested, activations>>

NextTrack ==
    \/ HandleToggleOnline
    \/ ToggleOnlineReject
    \/ \E f \in ReleaseFailures : TrackToggleOnlineResolve(f)
    \/ AcceptTap
    \/ AcceptFail
    \/ AcceptNavigate
    \/ \E f \in ReleaseFailures : CurrentDeliveryLoaded(f)
    \/ \E f \in ReleaseFailures : UnmountCurrentDelivery(f)
    \/ \E i \in Insts : ConnectTokenRead(i)
    \/ \E i \in Insts : ConnectTokenFail(i)
    \/ \E i \in Insts : TrackingSocketConnect(i)
    \/ \E i \in Insts : TrackingSocketDrop(i)
    \/ \E i \in Insts : OrphanSocketConnect(i)
    \/ \E i \in Insts, granted \in BOOLEAN : StartForeground(i, granted)
    \/ \E i \in Insts : StartBackground(i)
    \/ \E i \in Insts : StartPosition(i)
    \/ \E i \in Insts : StartWatch(i)
    \/ \E i \in Insts, p \in Phases : StartFail(i, p)
    \/ \E i \in Insts : WatchCallback(i)

----------------------------------------------------------------------------
\* startTracking, one call followed step by step (SpecSampler)
\*
\* The call the online effect of a hook makes, with what the
\* sensor hands to it: the positions are meters along a line, the clock is in
\* milliseconds.

\* The options handed to Location.watchPositionAsync.
timeInterval == 5000

distanceInterval == 10

\* Raw positions the sensor may report, and the time between two raw fixes.
Meters == {0, 5, 10, 20}

Elapsed == {2500, 5000}

\* Largest number of raw positions the sensor reports in one run.
MaxRaw == 3

\* requestBackgroundPermissionsAsync: answers granted, answers something
\* else, or throws.
BackgroundOutcomes == {"granted", "denied", "threw"}

Abs(x) == IF x < 0 THEN -x ELSE x

NoFix == [has |-> FALSE, pos |-> 0, time |-> 0]

\* module: Location is not null.  socket: what socketRef holds during the call.
\* order: the activeOrderId prop of the hook when the online effect made the
\* call, "null" in HomeScreen and before CurrentDeliveryScreen has its
\* delivery; the sendLocationUpdate the call uses was created with it.
NewSampler(module, socket, order) ==
    [ module     |-> module,
      order      |-> order,
      currentOrder |-> order,  \* the activeOrderId prop now
      carried    |-> "none",   \* orderId of the updateLocation the call sent last
      sent       |-> <<>>,     \* sample numbers of the updateLocation messages, in order
      pc         |-> "idle",   \* "idle", the await reached, or "done"
      result     |-> "none",   \* what startTracking returned: "true", "false"
      failedAt   |-> "none",   \* where a failed call gave up
      background |-> "none",   \* outcome of the background permission request
      hook       |-> [NewHook EXCEPT !.mounted = TRUE, !.socketRef = socket],
      handed     |-> <<>>,     \* samples passed to sendLocationUpdate, in order
      raw        |-> 0,        \* raw positions reported so far
      clock      |-> 0,
      lastFix    |-> NoFix ]   \* the last fix the subscription delivered

Sample(src, d, t, n) == [source |-> src, pos |-> d, time |-> t, n |-> n]

\* startTracking returns false after setError(e).
startFailed(s, at, e) ==
    [s EXCEPT !.pc = "done", !.result = "false", !.failedAt = at,
              !.hook = setError(s.hook, e)]

\* Variant in which a throwing background request reaches the outer catch.
afterBackground_ThrowAborts(s, o) ==
    IF o = "threw"
    THEN startFailed([s EXCEPT !.background = o], "bg", "Failed to start tracking")
    ELSE [s EXCEPT !.pc = "pos", !.background = o]

\* The inner try around requestBackgroundPermissionsAsync: a status other
\* than granted and an exception are only logged.
afterBackground(s, o) == [s EXCEPT !.pc = "pos", !.background = o]

\* The subscription created with timeInterval and distanceInterval reports a
\* raw position: always its first one (it has no earlier fix; the initial
\* sample was fetched by another call), never one that is within both
\* thresholds of its last fix, always one beyond both; which of the two
\* thresholds decides otherwise depends on the platform.
MayDeliver(last, d, t) ==
    \/ ~last.has
    \/ Abs(d - last.pos) >= distanceInterval
    \/ t - last.time >= timeInterval

MustDeliver(last, d, t) ==
    \/ ~last.has
    \/ Abs(d - last.pos) >= distanceInterval /\ t - last.time >= timeInterval

\* Variant in which the active-order effect sends the location of the
\* render before.
sampleNumbers_StaleEffect(h, n, id, order) ==
    [k \in 1..Len(sendLocationUpdate(h, Home, id)) |-> n]
        \o [k \in 1..Len(activeOrderEffect(setLocation(h), Home, id, order)) |-> n - 1]

\* The sample numbers carried by the updateLocation messages that handling
\* sample n emits: sendLocationUpdate(locationData) carries n, and the
\* active-order effect carries the location of the render setLocation
\* caused, which is n again.
sampleNumbers(h, n, id, order) ==
    [k \in 1..Len(sampleMessages(h, Home, id, order)) |-> n]

SamplerFrame ==
    UNCHANGED <<screenVars, sessionVars, offerVars, hooks, current, created, delivery,
                acceptRequested, activations>>

\* The online effect calls startTracking(): without the Location module it
\* returns false at once, otherwise it awaits the foreground permission.
SamplerStart ==
    /\ sampler.pc = "idle"
    /\ Activates(isOnline, driverId)
    /\ sampler' = IF sampler.module
                  THEN [sampler EXCEPT !.pc = "fg"]
                  ELSE startFailed(sampler, "module", "Location not available")
    /\ emitted' = <<>>
    /\ SamplerFrame

\* requestForegroundPermissionsAsync answered.
SamplerForeground(granted) ==
    /\ sampler.pc = "fg"
    /\ sampler' = IF granted
                  THEN [sampler EXCEPT !.pc = "bg"]
                  ELSE startFailed(sampler, "fg", "Location permission denied")
    /\ emitted' = <<>>
    /\ SamplerFrame

\* requestBackgroundPermissionsAsync answered or threw.
SamplerBackground(o) ==
    /\ sampler.pc = "bg"
    /\ sampler' = afterBackground(sampler, o)
    /\ emitted' = <<>>
    /\ SamplerFrame

\* getCurrentPositionAsync answered with a fresh raw position d:
\* setLocation(initialLocation), sendLocationUpdate(initialLocation).
SamplerPosition(d) ==
    /\ sampler.pc = "pos"
    /\ sampler.raw < MaxRaw
    /\ sampler' = [sampler EXCEPT
                      !.pc = "watch",
                      !.raw = @ + 1,
                      !.hook = onSample(@),
                      !.handed = Append(@, Sample("initial", d, sampler.clock,
                                                  sampler.raw + 1)),
                      !.sent = @ \o sampleNumbers(sampler.hook, sampler.raw + 1,
                                                  driverId, sampler.currentOrder),
                      !.carried = IF sendLocationUpdate(sampler.hook, Home, driverId) # <<>>
                                  THEN sampler.order ELSE @]
    /\ emitted' = sampleMessages(sampler.hook, Home, driverId, sampler.currentOrder)
    /\ SamplerFrame

\* watchPositionAsync answered: the subscription is held, setIsTracking(true),
\* setError(null), return true.
SamplerWatch ==
    /\ sampler.pc = "watch"
    /\ sampler' = [sampler EXCEPT
                      !.pc = "done",
                      !.result = "true",
                      !.hook = setError(setIsTracking([@ EXCEPT !.watchIdRef = TRUE],
                                                      TRUE), "null")]
    /\ emitted' = <<>>
    /\ SamplerFrame

\* The call awaited at p threw: the catch of startTracking.
SamplerFail(p) ==
    /\ p \in {"fg", "pos", "watch"}
    /\ sampler.pc = p
    /\ sampler' = startFailed(sampler, p, "Failed to start tracking")
    /\ emitted' = <<>>
    /\ SamplerFrame

\* The sensor reports raw position d, dt after the previous one, while the
\* subscription is live; if the subscription reports it, its callback runs
\* setLocation(locationData), sendLocationUpdate(locationData).
SamplerRawPosition(d, dt, deliver) ==
    /\ sampler.hook.watchIdRef
    /\ sampler.raw < MaxRaw
    /\ deliver => MayDeliver(sampler.lastFix, d, sampler.clock + dt)
    /\ MustDeliver(sampler.lastFix, d, sampler.clock + dt) => deliver
    /\ sampler' =
          IF deliver
          THEN [sampler EXCEPT
                   !.raw = @ + 1,
                   !.clock = @ + dt,
                   !.lastFix = [has |-> TRUE, pos |-> d, time |-> sampler.clock + dt],
                   !.hook = onSample(@),
                   !.handed = Append(@, Sample("watch", d, sampler.clock + dt,
                                               sampler.raw + 1)),
                   !.sent = @ \o sampleNumbers(sampler.hook, sampler.raw + 1,
                                               driverId, sampler.currentOrder),
                   !.carried = IF sendLocationUpdate(sampler.hook, Home, driverId) # <<>>
                               THEN sampler.order ELSE @]
          ELSE [sampler EXCEPT !.raw = @ + 1, !.clock = @ + dt]
    /\ emitted' = IF deliver
                  THEN sampleMessages(sampler.hook, Home, driverId, sampler.currentOrder)
                  ELSE <<>>
    /\ SamplerFrame

\* CurrentDeliveryScreen receives its delivery while the call is under way:
\* activeOrderId changes, sendLocationUpdate and startTracking are new
\* functions and the online effect runs again (cleanup, connectSocket, a
\* new startTracking call).  The call followed is not cancelled and keeps
\* the sendLocationUpdate it was created with.  The active-order effect
\* finds the ref without a socket.
SamplerOrderLoaded ==
    /\ sampler.pc # "idle"
    /\ sampler.currentOrder = "null"
    /\ sampler' = [sampler EXCEPT
                      !.currentOrder = "order",
                      !.hook = rerunOnlineEffect(@, TRUE, driverId, "none")]
    /\ emitted' = <<>>
    /\ SamplerFrame

\* The connectSocket call of the effect that ran again: the token was read,
\* the socket was created and has connected.
SamplerSocketConnect ==
    /\ sampler.hook.connects > 0
    /\ sampler' = [sampler EXCEPT !.hook.connects = @ - 1,
                                  !.hook.socketRef = "connected"]
    /\ emitted' = onConnect(sampler'.hook, Home)
    /\ SamplerFrame

NextSampler ==
    \/ SamplerOrderLoaded
    \/ SamplerSocketConnect
    \/ SamplerStart
    \/ \E granted \in BOOLEAN : SamplerForeground(granted)
    \/ \E o \in BackgroundOutcomes : SamplerBackground(o)
    \/ \E d \in Meters : SamplerPosition(d)
    \/ SamplerWatch
    \/ \E p \in Phases : SamplerFail(p)
    \/ \E d \in Meters, dt \in Elapsed, deliver \in BOOLEAN :
           SamplerRawPosition(d, dt, deliver)

\* In Spec and SpecTrack the call is not followed.
InitSampler == sampler = NewSampler(TRUE, "null", "null")

\* SpecSampler: any host (with or without the Location module), the
\* tracking socket connected or not yet created, the hook of HomeScreen (no
\* active order) or of CurrentDeliveryScreen with its delivery loaded.
InitSamplerOpen ==
    sampler \in {NewSampler(m, sk, o) : m \in BOOLEAN, sk \in {"null", "connected"},
                                       o \in {"null", "order"}}

----------------------------------------------------------------------------
\* REST client and CurrentDeliveryScreen (SpecDelivery)

\* The response interceptor of api.ts on a rejected request: on status 401 it
\* removes 'token' and 'user' from AsyncStorage, then rejects again.  It
\* does not reach the state of AuthProvider.
responseInterceptor(s, code) ==
    IF code = "401" THEN [s EXCEPT !.stored = @ \ {"token", "user"}] ELSE s

\* AuthProvider and AsyncStorage before any login: user, the keys held in
\* AsyncStorage, the position of the login call ("idle", "posting" at
\* POST /auth/login, "profile" at GET /drivers/me), what login threw last,
\* the Alert of handleToggleOnline, and the token each channel presented at
\* its last handshake ("unset" before the first).
LoggedOut ==
    [ user     |-> "null",
      stored   |-> {},
      login    |-> "idle",
      thrown   |-> "none",
      alert    |-> FALSE,
      tracking |-> "unset",
      offer    |-> "unset" ]

\* AuthProvider and AsyncStorage after login.
LoggedIn == [LoggedOut EXCEPT !.user = "u1", !.stored = {"token", "refreshToken", "user"}]

\* isAuthenticated: !!user
isAuthenticated(s) == s.user # "null"

\* CurrentDeliveryScreen as useState creates it.  delivery is "null" or the
\* status of the record held.
NewCurrentDeliveryScreen ==
    [ delivery   |-> "null",
      isLoading  |-> TRUE,
      isUpdating |-> FALSE,
      fetching   |-> FALSE,    \* GET /drivers/deliveries/current is in flight
      request    |-> "none",   \* the status asked of PATCH /orders/:id/status
      confirmed  |-> FALSE,    \* the driver confirmed that request in a prompt
      alert      |-> "none",   \* the Alert on screen: "cancel", "error", "success"
      lastEvent  |-> "none" ]  \* status of the orderStatusUpdate handled last

\* getStatusInfo()?.nextStatus: the status the primary button asks for,
\* "none" when getStatusInfo returns null and the button is not rendered.
getStatusInfo(status) ==
    CASE status = "PICKED_UP" -> "IN_TRANSIT"
      [] status = "IN_TRANSIT" -> "DELIVERED"
      [] OTHER -> "none"

\* What an orderStatusUpdate event does to the screen: HomeScreen passes no
\* onOrderStatusUpdate to useDriverSocket and CurrentDeliveryScreen opens no
\* offer socket, so `onOrderStatusUpdate?.(data)` calls nothing.
onOrderStatusUpdate(c, status) == c

DeliveryFrame ==
    UNCHANGED <<driverId, isOnline, isTogglingOnline, toggleReq, offerVars, trackVars,
                samplerVars, earnings, history>>

\* fetchDelivery: the record arrived, with the status the server holds.
FetchDeliveryResolve(status) ==
    /\ cds.fetching
    /\ cds' = [cds EXCEPT !.fetching = FALSE, !.delivery = status, !.isLoading = FALSE,
                          !.lastEvent = "none"]
    /\ UNCHANGED <<screen, session>>
    /\ DeliveryFrame

\* fetchDelivery failed: alert, navigation.goBack(), setIsLoading(false).
FetchDeliveryReject(code) ==
    /\ cds.fetching
    /\ cds' = [cds EXCEPT !.fetching = FALSE, !.alert = "error", !.isLoading = FALSE,
                          !.lastEvent = "none"]
    /\ screen' = "Main"
    /\ session' = responseInterceptor(session, code)
    /\ DeliveryFrame

\* A press on the primary button: handleUpdateStatus(statusInfo.nextStatus)
\* up to `await api.patch(...)`.  The button is rendered when getStatusInfo
\* returns a value and is disabled while isUpdating; an Alert covers it.
HandleUpdateStatus ==
    /\ screen = "CurrentDelivery"
    /\ cds.delivery # "null"
    /\ getStatusInfo(cds.delivery) # "none"
    /\ ~cds.isUpdating
    /\ cds.alert = "none"
    /\ cds' = [cds EXCEPT !.isUpdating = TRUE, !.request = getStatusInfo(cds.delivery),
                          !.confirmed = FALSE, !.lastEvent = "none"]
    /\ UNCHANGED <<screen, session>>
    /\ DeliveryFrame

\* A press on "Cancelar Entrega", rendered while the status is PICKED_UP:
\* handleCancelDelivery shows the confirmation prompt.
HandleCancelDelivery ==
    /\ screen = "CurrentDelivery"
    /\ cds.delivery = "PICKED_UP"
    /\ ~cds.isUpdating
    /\ cds.alert = "none"
    /\ cds' = [cds EXCEPT !.alert = "cancel", !.lastEvent = "none"]
    /\ UNCHANGED <<screen, session>>
    /\ DeliveryFrame

\* "Sim, cancelar": onPress up to `await api.patch(...)`.
CancelConfirm ==
    /\ cds.alert = "cancel"
    /\ cds' = [cds EXCEPT !.alert = "none", !.isUpdating = TRUE, !.request = "CANCELLED",
                          !.confirmed = TRUE, !.lastEvent = "none"]
    /\ UNCHANGED <<screen, session>>
    /\ DeliveryFrame

\* "Não" on the confirmation prompt, or OK on the failure alert.
AlertDismiss ==
    /\ cds.alert \in {"cancel", "error"}
    /\ cds' = [cds EXCEPT !.alert = "none", !.lastEvent = "none"]
    /\ UNCHANGED <<screen, session>>
    /\ DeliveryFrame

\* OK on "Entrega concluída!": navigation.navigate('Main').
SuccessOk ==
    /\ cds.alert = "success"
    /\ cds' = [cds EXCEPT !.alert = "none", !.lastEvent = "none"]
    /\ screen' = "Main"
    /\ UNCHANGED session
    /\ DeliveryFrame

\* PATCH /orders/:id/status answered.  handleUpdateStatus stores the record
\* and announces a DELIVERED one; the cancel handler navigates to Main.
\* Both end with setIsUpdating(false).
StatusResolve ==
    /\ cds.request # "none"
    /\ cds' = IF cds.request = "CANCELLED"
              THEN [cds EXCEPT !.request = "none", !.isUpdating = FALSE,
                               !.lastEvent = "none"]
              ELSE [cds EXCEPT !.request = "none", !.isUpdating = FALSE,
                               !.delivery = cds.request,
                               !.alert = IF cds.request = "DELIVERED"
                                         THEN "success" ELSE @,
                               !.lastEvent = "none"]
    /\ screen' = IF cds.request = "CANCELLED" THEN "Main" ELSE screen
    /\ UNCHANGED session
    /\ DeliveryFrame

\* Variant that stores the requested status although the request failed.
StatusReject_StoresStatus(code) ==
    /\ cds.request # "none"
    /\ cds' = [cds EXCEPT !.request = "none", !.isUpdating = FALSE, !.alert = "error",
                          !.delivery = IF cds.request = "CANCELLED" THEN @ ELSE cds.request,
                          !.lastEvent = "none"]
    /\ session' = responseInterceptor(session, code)
    /\ screen' = IF cds.request = "CANCELLED" THEN "Main" ELSE screen
    /\ DeliveryFrame

\* PATCH /orders/:id/status failed: the catch of either handler alerts, the
\* finally runs setIsUpdating(false).
StatusReject(code) ==
    /\ cds.request # "none"
    /\ cds' = [cds EXCEPT !.request = "none", !.isUpdating = FALSE, !.alert = "error",
                          !.lastEvent = "none"]
    /\ session' = responseInterceptor(session, code)
    /\ UNCHANGED screen
    /\ DeliveryFrame

\* The offer socket of HomeScreen, mounted underneath, receives
\* orderStatusUpdate for the delivery on screen.
OrderStatusUpdate(status) ==
    /\ offerSocket = "connected"
    /\ screen = "CurrentDelivery"
    /\ cds.delivery # "null"
    /\ cds' = [onOrderStatusUpdate(cds, status) EXCEPT !.lastEvent = status]
    /\ UNCHANGED <<screen, session>>
    /\ DeliveryFrame

\* What a rejected request may carry.
Codes == {"401", "network"}

NextDelivery ==
    \/ OfferSocketConnect
    \/ OfferSocketDrop
    \/ \E status \in {"ACCEPTED", "PICKED_UP", "IN_TRANSIT"} : FetchDeliveryResolve(status)
    \/ \E code \in Codes : FetchDeliveryReject(code)
    \/ HandleUpdateStatus
    \/ HandleCancelDelivery
    \/ CancelConfirm
    \/ AlertDismiss
    \/ SuccessOk
    \/ StatusResolve
    \/ \E code \in Codes : StatusReject(code)
    \/ \E status \in {"ACCEPTED", "PICKED_UP", "IN_TRANSIT", "DELIVERED", "CANCELLED"} :
           OrderStatusUpdate(status)

----------------------------------------------------------------------------
\* EarningsScreen and HistoryScreen (SpecReads)

\* A screen that loads its data on mount, as useState creates it.  In
\* EarningsScreen `data` stands for summary and todayEarnings, which are set
\* together: "null", "server" (the responses) or "zero" (the defaults of the
\* catch).  In HistoryScreen it stands for deliveries: "empty" or "server".
NewReadScreen(data) ==
    [data |-> data, isLoading |-> TRUE, isRefreshing |-> FALSE, fetching |-> FALSE]

ReadsFrame == UNCHANGED <<sessionVars, offerVars, trackVars, samplerVars, cds, session>>

\* EarningsScreen.fetchData: both GETs of the Promise.all answered; then the
\* setIsRefreshing(false) of handleRefresh when it made the call.
EarningsFetchResolve ==
    /\ earnings.fetching
    /\ earnings' = [data |-> "server", isLoading |-> FALSE, isRefreshing |-> FALSE,
                    fetching |-> FALSE]
    /\ UNCHANGED history
    /\ ReadsFrame

\* Variant of the catch of fetchData that keeps what the screen held.
fetchDataRejected_KeepsData(prev) == prev

\* The catch of fetchData: setSummary and setTodayEarnings with zeroes.
fetchDataRejected(prev) == "zero"

\* EarningsScreen.fetchData: one of the GETs failed.
EarningsFetchReject ==
    /\ earnings.fetching
    /\ earnings' = [data |-> fetchDataRejected(earnings.data), isLoading |-> FALSE,
                    isRefreshing |-> FALSE, fetching |-> FALSE]
    /\ UNCHANGED history
    /\ ReadsFrame

\* EarningsScreen.handleRefresh up to `await fetchData()`, on the tab shown
\* first.  The RefreshControl is rendered once isLoading is false.
EarningsRefresh ==
    /\ ~earnings.isLoading
    /\ ~earnings.isRefreshing
    /\ earnings' = [earnings EXCEPT !.isRefreshing = TRUE, !.fetching = TRUE]
    /\ UNCHANGED history
    /\ ReadsFrame

\* HistoryScreen.fetchHistory: setDeliveries(response.data.data || []).
HistoryFetchResolve ==
    /\ history.fetching
    /\ history' = [data |-> "server", isLoading |-> FALSE, isRefreshing |-> FALSE,
                   fetching |-> FALSE]
    /\ UNCHANGED earnings
    /\ ReadsFrame

\* HistoryScreen.fetchHistory failed: setDeliveries([]).
HistoryFetchReject ==
    /\ history.fetching
    /\ history' = [data |-> "empty", isLoading |-> FALSE, isRefreshing |-> FALSE,
                   fetching |-> FALSE]
    /\ UNCHANGED earnings
    /\ ReadsFrame

\* HistoryScreen.handleRefresh up to `await fetchHistory()`.
HistoryRefresh ==
    /\ ~history.isLoading
    /\ ~history.isRefreshing
    /\ history' = [history EXCEPT !.isRefreshing = TRUE, !.fetching = TRUE]
    /\ UNCHANGED earnings
    /\ ReadsFrame

NextReads ==
    \/ \E data \in AvailableLists : FetchResolve(data)
    \/ FetchReject
    \/ HandleRefresh
    \/ \E data \in AvailableLists : RefreshResolve(data)
    \/ RefreshReject
    \/ EarningsFetchResolve
    \/ EarningsFetchReject
    \/ EarningsRefresh
    \/ HistoryFetchResolve
    \/ HistoryFetchReject
    \/ HistoryRefresh

\* SpecReads: HomeScreen, EarningsScreen and HistoryScreen have just mounted
\* and their mount effects issued the requests.
InitReads ==
    /\ InitSession
    /\ InitOffers
    /\ InitTrack
    /\ InitSampler
    /\ cds = NewCurrentDeliveryScreen
    /\ session = LoggedIn
    /\ earnings = [NewReadScreen("null") EXCEPT !.fetching = TRUE]
    /\ history = [NewReadScreen("empty") EXCEPT !.fetching = TRUE]

\* In the other specifications CurrentDeliveryScreen, EarningsScreen and
\* HistoryScreen are not followed.
InitScreens ==
    /\ cds = NewCurrentDeliveryScreen
    /\ session = LoggedIn
    /\ earnings = NewReadScreen("null")
    /\ history = NewReadScreen("empty")

\* SpecDelivery: an accept succeeded and CurrentDeliveryScreen has just
\* mounted; its mount effect called fetchDelivery.
InitDelivery ==
    /\ driverId = "d1"
    /\ isOnline \in BOOLEAN
    /\ isTogglingOnline = FALSE
    /\ toggleReq = "none"
    /\ screen = "CurrentDelivery"
    /\ InitOffers
    /\ InitTrack
    /\ InitSampler
    /\ cds = [NewCurrentDeliveryScreen EXCEPT !.fetching = TRUE]
    /\ session = LoggedIn
    /\ earnings = NewReadScreen("null")
    /\ history = NewReadScreen("empty")

----------------------------------------------------------------------------
\* AuthProvider (SpecAuth)
\*
\* The writes to AsyncStorage inside login and clearAuth are taken together
\* with the state changes that follow them.

\* AsyncStorage.getItem(key): the value kept under `key`, named by its key
\* (the value under 'token' is the accessToken of login), or "null".
getItem(s, key) == IF key \in s.stored THEN key ELSE "null"

\* Variant of login that stores the credentials before it looks at the role.
loginResponse_StoresFirst(s, role) ==
    IF role # "DRIVER"
    THEN [s EXCEPT !.stored = @ \cup {"token", "refreshToken", "user"},
                   !.login = "idle", !.thrown = "role"]
    ELSE [s EXCEPT !.stored = @ \cup {"token", "refreshToken", "user"},
                   !.user = "u1", !.login = "profile"]

\* login after POST /auth/login answered with an account of `role`: throw for
\* a role other than DRIVER, else setItem x3, setUser, and GET /drivers/me.
loginResponse(s, role) ==
    IF role # "DRIVER"
    THEN [s EXCEPT !.login = "idle", !.thrown = "role"]
    ELSE [s EXCEPT !.stored = @ \cup {"token", "refreshToken", "user"},
                   !.user = "u1", !.login = "profile"]

\* clearAuth: multiRemove, setUser(null); setDriver(null) and
\* setIsOnline(false) are in the action.
clearAuth(s) == [s EXCEPT !.stored = @ \ {"token", "refreshToken", "user"}, !.user = "null"]

\* Variant of the catch of handleToggleOnline that also clears the flag.
toggleFailed_GoesOffline(online) == FALSE

\* isOnline after toggleOnline threw: no setter ran.
toggleFailed(online) == online

\* auth.token of the handshake of the tracking socket.
trackingHandshake(s) == getItem(s, "@FoodApp:token")

\* The handshake of the offer socket: io(url, { transports }) carries no
\* auth payload.
offerHandshake(s) == "null"

AuthFrame == UNCHANGED <<screen, offerVars, trackVars, samplerVars, cds, earnings, history>>

\* LoginScreen calls login(email, password): POST /auth/login.
AuthLogin ==
    /\ ~isAuthenticated(session)
    /\ session.login = "idle"
    /\ session' = [session EXCEPT !.login = "posting", !.thrown = "none"]
    /\ UNCHANGED <<driverId, isOnline, isTogglingOnline, toggleReq>>
    /\ AuthFrame

\* POST /auth/login answered with an account of `role`.
AuthLoginResolve(role) ==
    /\ session.login = "posting"
    /\ session' = loginResponse(session, role)
    /\ UNCHANGED <<driverId, isOnline, isTogglingOnline, toggleReq>>
    /\ AuthFrame

\* POST /auth/login failed: login throws what the request threw.
AuthLoginReject ==
    /\ session.login = "posting"
    /\ session' = [session EXCEPT !.login = "idle", !.thrown = "request"]
    /\ UNCHANGED <<driverId, isOnline, isTogglingOnline, toggleReq>>
    /\ AuthFrame

\* GET /drivers/me of login answered: setDriver, setIsOnline(data.isOnline).
AuthProfileResolve(online) ==
    /\ session.login = "profile"
    /\ session' = [session EXCEPT !.login = "idle"]
    /\ driverId' = "d1"
    /\ isOnline' = online
    /\ UNCHANGED <<isTogglingOnline, toggleReq>>
    /\ AuthFrame

\* GET /drivers/me of login failed: setDriver(null), setIsOnline(false).
AuthProfileReject(code) ==
    /\ session.login = "profile"
    /\ session' = [responseInterceptor(session, code) EXCEPT !.login = "idle"]
    /\ driverId' = "null"
    /\ isOnline' = FALSE
    /\ UNCHANGED <<isTogglingOnline, toggleReq>>
    /\ AuthFrame

\* ProfileScreen: logout -> clearAuth.  The tabs unmount, and with them the
\* isTogglingOnline of HomeScreen; requests in flight stay in flight.
AuthLogout ==
    /\ isAuthenticated(session)
    /\ session' = clearAuth(session)
    /\ driverId' = "null"
    /\ isOnline' = FALSE
    /\ isTogglingOnline' = FALSE
    /\ UNCHANGED toggleReq
    /\ AuthFrame

\* handleToggleOnline up to the await inside toggleOnline:
\* PATCH /drivers/status { isOnline: !isOnline }.
AuthToggle ==
    /\ isAuthenticated(session)
    /\ ~toggleDisabled
    /\ ~session.alert
    /\ toggleReq = "none"
    /\ isTogglingOnline' = TRUE
    /\ toggleReq' = (IF isOnline THEN "off" ELSE "on")
    /\ UNCHANGED <<session, driverId, isOnline>>
    /\ AuthFrame

\* PATCH /drivers/status answered with a driver record whose isOnline is
\* `online`: setIsOnline, setDriver, then the finally of handleToggleOnline.
AuthToggleResolve(online) ==
    /\ toggleReq # "none"
    /\ isOnline' = online
    /\ driverId' = "d1"
    /\ isTogglingOnline' = FALSE
    /\ toggleReq' = "none"
    /\ UNCHANGED session
    /\ AuthFrame

\* PATCH /drivers/status failed: toggleOnline throws, handleToggleOnline
\* alerts, then its finally.
AuthToggleReject(code) ==
    /\ toggleReq # "none"
    /\ session' = [responseInterceptor(session, code) EXCEPT !.alert = TRUE]
    /\ isOnline' = toggleFailed(isOnline)
    /\ isTogglingOnline' = FALSE
    /\ toggleReq' = "none"
    /\ UNCHANGED driverId
    /\ AuthFrame

\* The driver closes the Alert.
AuthAlertDismiss ==
    /\ session.alert
    /\ session' = [session EXCEPT !.alert = FALSE]
    /\ UNCHANGED <<driverId, isOnline, isTogglingOnline, toggleReq>>
    /\ AuthFrame

\* The tracking socket of HomeScreen shakes hands: connectSocket read the
\* token and called io(url, { auth: { token } }).
AuthConnectTracking ==
    /\ isAuthenticated(session)
    /\ isOnline
    /\ driverId # "null"
    /\ session' = [session EXCEPT !.tracking = trackingHandshake(session)]
    /\ UNCHANGED <<driverId, isOnline, isTogglingOnline, toggleReq>>
    /\ AuthFrame

\* The offer socket of HomeScreen shakes hands.
AuthConnectOffer ==
    /\ isAuthenticated(session)
    /\ useDriverSocketEffect(isOnline, driverId) # "none"
    /\ session' = [session EXCEPT !.offer = offerHandshake(session)]
    /\ UNCHANGED <<driverId, isOnline, isTogglingOnline, toggleReq>>
    /\ AuthFrame

\* Account roles of the backend.
Roles == {"DRIVER", "CUSTOMER"}

NextAuth ==
    \/ AuthLogin
    \/ \E role \in Roles : AuthLoginResolve(role)
    \/ AuthLoginReject
    \/ \E online \in BOOLEAN : AuthProfileResolve(online)
    \/ \E code \in Codes : AuthProfileReject(code)
    \/ AuthLogout
    \/ AuthToggle
    \/ \E online \in BOOLEAN : AuthToggleResolve(online)
    \/ \E code \in Codes : AuthToggleReject(code)
    \/ AuthAlertDismiss
    \/ AuthConnectTracking
    \/ AuthConnectOffer

\* SpecAuth: loadStoredAuth found no credentials and LoginScreen is shown.
\* The route of the navigator follows isAuthenticated(session) and is not
\* followed in `screen`.
InitAuth ==
    /\ driverId = "null"
    /\ isOnline = FALSE
    /\ isTogglingOnline = FALSE
    /\ toggleReq = "none"
    /\ screen = "Login"
    /\ InitOffers
    /\ InitTrack
    /\ InitSampler
    /\ cds = NewCurrentDeliveryScreen
    /\ session = LoggedOut
    /\ earnings = NewReadScreen("null")
    /\ history = NewReadScreen("empty")

----------------------------------------------------------------------------
Init ==
    /\ InitSession
    /\ InitOffers
    /\ InitTrack
    /\ InitSampler
    /\ InitScreens

InitOpen ==
    /\ InitSession
    /\ InitOffers
    /\ InitTrack
    /\ InitSamplerOpen
    /\ InitScreens

Next ==
    \/ OfferSocketConnect
    \/ OfferSocketDrop
    \/ \E a \in Ids : NewAvailableDelivery(a)
    \/ \E a \in Ids : DeliveryTaken(a)
    \/ HandleRefresh
    \/ \E data \in AvailableLists : FetchResolve(data)
    \/ FetchReject
    \/ \E data \in AvailableLists : RefreshResolve(data)
    \/ RefreshReject
    \/ HandleToggleOnline
    \/ ToggleOnlineResolve
    \/ ToggleOnlineReject
    \/ \E a \in Ids : HandleAcceptDelivery(a)
    \/ \E a \in Ids : AcceptResolve(a)
    \/ \E a \in Ids : AcceptReject(a)
    \/ NavigateMain

Spec == Init /\ [][Next]_vars

SpecTrack == Init /\ [][NextTrack]_vars

SpecSampler == InitOpen /\ [][NextSampler]_vars

SpecDelivery == InitDelivery /\ [][NextDelivery]_vars

SpecReads == InitReads /\ [][NextReads]_vars

SpecAuth == InitAuth /\ [][NextAuth]_vars

----------------------------------------------------------------------------
\* Properties

TotalOpenSockets == SumOver([i \in Insts |-> OpenSockets(hooks[i])], Insts)

TotalLiveWatches == SumOver([i \in Insts |-> LiveWatches(hooks[i])], Insts)

\* The hook of instance i is switched on: mounted, isOnline prop true, driver known.
HookActive(i) == hooks[i].mounted /\ HookOnline(i, isOnline) /\ driverId # "null"

\* C1: while isOnline is false the delivery list of HomeScreen is empty,
\* whatever requests were in flight when the driver went offline.
C1_OfflineListEmpty == ~isOnline => deliveries = <<>>

\* C2: while the session's isOnline is false no mounted useLocationTracking
\* instance emits an updateLocation message.
C2_NoUpdateLocationOffline ==
    \A k \in 1..Len(emitted) :
        (emitted[k].event = "updateLocation" /\ hooks[emitted[k].hook].mounted)
            => isOnline

\* C3: in the step that completes the pair {response of the one accept of
\* offer a, deliveryTaken(a) handled after that accept was issued}, offer a
\* is absent from the list and the user has been told exactly once, by the
\* navigation or by the failure alert.
C3_AcceptTakenRace ==
    [][\A a \in Ids :
          (race[a] # "done" /\ race'[a] = "done"
             /\ acceptPending'[a] + navigated'[a] + alerted'[a] = 1)
          => (a \notin Range(deliveries') /\ navigated'[a] + alerted'[a] = 1)]_vars

\* C4: once an instance is switched off (offline or unmounted) and none of
\* its connectSocket / startTracking calls is still suspended, it holds no
\* open tracking socket and no live position subscription.
C4_ReleasedWhenSettled ==
    \A i \in Insts :
        (~HookActive(i) /\ Suspended(hooks[i]) = 0)
            => (OpenSockets(hooks[i]) = 0 /\ LiveWatches(hooks[i]) = 0)

\* C5: at most one tracking socket is open and at most one position
\* subscription is live for the driver, over all instances.
C5_AtMostOneSocketAndWatch == TotalOpenSockets <= 1 /\ TotalLiveWatches <= 1

\* C6: handling newAvailableDelivery leaves a list without repeated ids, and
\* leaves the list as it was when the id is already listed.
C6_InsertIdempotent ==
    [][\A a \in Ids :
          NewAvailableDelivery(a)
          => /\ NoDup(deliveries')
             /\ a \in Range(deliveries')
             /\ (a \in Range(deliveries) => deliveries' = deliveries)]_vars

\* A repeated newAvailableDelivery("A") has been handled with "B" ahead of it.
C6_Witness ==
    /\ lastEvent = [event |-> "newAvailableDelivery", id |-> "A", present |-> TRUE]
    /\ deliveries = <<"B", "A">>

\* C7: handling deliveryTaken(a) leaves a list without a and with exactly the
\* other entries; when a is not listed the list stays as it was.
C7_TakenRemoves ==
    [][\A a \in Ids :
          DeliveryTaken(a)
          => /\ a \notin Range(deliveries')
             /\ Range(deliveries') = Range(deliveries) \ {a}
             /\ Len(deliveries') = Len(deliveries) - (IF a \in Range(deliveries) THEN 1 ELSE 0)
             /\ (a \notin Range(deliveries) => deliveries' = deliveries)]_vars

\* deliveryTaken("A") has been handled while "A" was listed next to "B".
C7_Witness ==
    /\ lastEvent = [event |-> "deliveryTaken", id |-> "A", present |-> TRUE]
    /\ deliveries = <<"B">>

\* C8: once deliveryTaken(a) has been handled, a later newAvailableDelivery(a)
\* does not put a back into the list (stated for the event that arrives
\* right after the deliveryTaken that removed a).
C8_NoResurrection ==
    [][\A a \in Ids :
          (lastEvent = [event |-> "deliveryTaken", id |-> a, present |-> TRUE]
             /\ NewAvailableDelivery(a))
          => a \notin Range(deliveries')]_vars

\* C9: a rejected accept of a alerts the user and leaves the list as
\* deliveryTaken(a) would: without a.
C9_RejectRemoves ==
    [][\A a \in Ids :
          AcceptReject(a)
          => /\ alerted'[a] = alerted[a] + 1
             /\ deliveries' = handleDeliveryTaken(deliveries, a)]_vars

\* C10: after an accept of a succeeded, a is not in the list of offers.
C10_AcceptRemoves ==
    [][\A a \in Ids : AcceptResolve(a) => a \notin Range(deliveries')]_vars

\* C11: an offer that newAvailableDelivery has just put into the list leaves
\* it only through deliveryTaken with its id, a successful accept of it, or
\* the driver going offline; in particular not through the response of an
\* available-delivery fetch or an event about another offer.
C11_LeavesOnlyByTakenAcceptOffline ==
    [][\A a \in Ids :
          (/\ lastEvent = [event |-> "newAvailableDelivery", id |-> a, present |-> FALSE]
           /\ a \in Range(deliveries)
           /\ a \notin Range(deliveries'))
          => \/ DeliveryTaken(a)
             \/ AcceptResolve(a)
             \/ (isOnline /\ ~isOnline')]_vars

\* updateLocation messages of instance i among msgs.
UpdatesOf(msgs, i) ==
    {k \in 1..Len(msgs) : msgs[k].event = "updateLocation" /\ msgs[k].hook = i}

\* A position sample reaches instance i in this step.
SampleStep(i) == StartPosition(i) \/ WatchCallback(i)

\* C12: an updateLocation message is emitted only when the socket the ref
\* holds is connected and the driverId is known; a sample that arrives
\* otherwise emits nothing and sets no error, and a socket that connects
\* flushes no updateLocation.
C12_EmitOnlyWhenConnected ==
    [][\A i \in Insts :
          /\ UpdatesOf(emitted', i) # {}
                => (hooks'[i].socketRef = "connected" /\ driverId # "null")
          /\ (SampleStep(i) /\ hooks[i].socketRef # "connected")
                => (emitted' = <<>> /\ hooks'[i].error = hooks[i].error)
          /\ (TrackingSocketConnect(i) \/ OrphanSocketConnect(i))
                => UpdatesOf(emitted', i) = {}]_vars

\* The initial sample of the only startTracking call of HomeScreen was
\* handled before connectSocket had created a socket: it was dropped.
C12_Witness ==
    /\ isOnline
    /\ activations = 1
    /\ hooks[Home].connects = 1
    /\ hooks[Home].socketRef = "null"
    /\ hooks[Home].location
    /\ hooks[Home].starts["watch"] = 1
    /\ hooks[Home].error = "null"
    /\ emitted = <<>>

\* C13: connectSocket is invoked exactly when an instance passes from
\* switched off to switched on (isOnline and driverId known), and the release
\* sequence with disconnectSocket runs whenever it passes from switched on
\* to switched off, unmount included.
C13_ConnectExactlyOnTransition ==
    [][\A i \in Insts :
          /\ (hooks'[i].connects = hooks[i].connects + 1)
                <=> (~HookActive(i) /\ HookActive(i)')
          /\ (HookActive(i) /\ ~HookActive(i)')
                => \E f \in ReleaseFailures :
                       [hooks'[i] EXCEPT !.mounted = hooks[i].mounted]
                           = release(hooks[i], f)]_vars

\* C14: when an instance is switched off (offline or unmount), a failing
\* release of the position subscription does not keep the socket from being
\* disconnected, and a failing disconnect does not keep the subscription
\* from being released.
C14_BothReleasePathsRun ==
    [][\A i \in Insts :
          (HookActive(i) /\ ~HookActive(i)')
          => /\ (hooks[i].watchIdRef /\ hooks'[i].watchIdRef)
                    => hooks'[i].socketRef = "null"
             /\ (hooks[i].socketRef # "null" /\ hooks'[i].socketRef # "null")
                    => ~hooks'[i].watchIdRef]_vars

\* C15: whenever a tracking socket connects, exactly one message is emitted
\* in that step, the driverConnect of that instance on the socket that
\* connected.
C15_IdentifyOnConnect ==
    [][\A i \in Insts :
          /\ TrackingSocketConnect(i)
                => emitted' = <<[hook |-> i, event |-> "driverConnect", socket |-> "ref"]>>
          /\ OrphanSocketConnect(i)
                => emitted' = <<[hook |-> i, event |-> "driverConnect", socket |-> "orphan"]>>]_vars

\* C20: a position sample results in at most one updateLocation message,
\* with or without an active order.
C20_SampleSentOnce ==
    [][\A i \in Insts :
          SampleStep(i) => Cardinality(UpdatesOf(emitted', i)) <= 1]_vars

\* C16: a startTracking call that returned false (module unavailable,
\* foreground permission not granted, a sensor call failed) has set the
\* error, has handed no sample on, holds no subscription and has not set
\* isTracking.
C16_FailedStartLeavesNothing ==
    sampler.result = "false"
        => /\ sampler.hook.error # "null"
           /\ sampler.handed = <<>>
           /\ ~sampler.hook.location
           /\ ~sampler.hook.watchIdRef
           /\ ~sampler.hook.isTracking

\* C17: whatever the background permission request does, the call goes on
\* to the position fetch with the hook state untouched and nothing handed
\* on or given up, and a call that gives up later does so at a sensor call.
C17_BackgroundNonFatal ==
    [][/\ \A o \in BackgroundOutcomes :
             SamplerBackground(o)
             => /\ sampler'.pc = "pos"
                /\ sampler'.result = "none"
                /\ sampler'.hook = sampler.hook
                /\ sampler'.handed = sampler.handed
       /\ (sampler.background # "none" /\ sampler'.result = "false")
             => sampler'.failedAt \in {"pos", "watch"}]_vars

\* The background request threw and tracking started all the same: the
\* initial sample and a sample of the subscription were handed on.
C17_Witness ==
    /\ sampler.background = "threw"
    /\ sampler.result = "true"
    /\ sampler.hook.isTracking
    /\ sampler.hook.error = "null"
    /\ Len(sampler.handed) = 2
    /\ sampler.handed[1].source = "initial"
    /\ sampler.handed[2].source = "watch"

\* C18: a call that returned true handed on exactly one initial sample, ahead
\* of every sample of the subscription; a call that returned false handed
\* on none.
C18_OneInitialSampleFirst ==
    /\ sampler.result = "true"
          => /\ Len(sampler.handed) >= 1
             /\ sampler.handed[1].source = "initial"
             /\ \A k \in 2..Len(sampler.handed) : sampler.handed[k].source = "watch"
    /\ sampler.result = "false" => sampler.handed = <<>>

\* C19: no two consecutive raw positions less than distanceInterval apart and
\* less than timeInterval apart are both handed on as samples.
C19_ThresholdsRespected ==
    \A k \in 1..(Len(sampler.handed) - 1) :
        ~ /\ sampler.handed[k + 1].n = sampler.handed[k].n + 1
          /\ Abs(sampler.handed[k + 1].pos - sampler.handed[k].pos) < distanceInterval
          /\ sampler.handed[k + 1].time - sampler.handed[k].time < timeInterval

\* C28: no two entries of HomeScreen's list share an id, after any sequence
\* of newAvailableDelivery, deliveryTaken, fetch responses and online /
\* offline transitions.
C28_ListHasNoDuplicates == NoDup(deliveries)

\* A fetch answered <<"A">>, then newAvailableDelivery("A") arrived again and
\* newAvailableDelivery("B") after it: the list holds each id once.
C28_Witness ==
    /\ lastEvent = [event |-> "newAvailableDelivery", id |-> "B", present |-> FALSE]
    /\ deliveries = <<"B", "A">>
    /\ fetchInFlight = 0

\* C27: while the driver has an active delivery (accepted, not yet finished:
\* CurrentDeliveryScreen is open on the delivery just accepted) isOnline is
\* true, under any interleaving of accept requests with online toggles.
C27_ActiveDeliveryImpliesOnline ==
    (screen = "CurrentDelivery" /\ \E a \in Ids : navigated[a] > 0) => isOnline

\* C26: losing the position sensor or the tracking socket never blocks the
\* toggle: whenever no toggle request is in flight the toggle of HomeScreen
\* can be pressed, whatever the location error and the socket state, and
\* every toggle request that ends leaves isTogglingOnline false.
C26_ToggleNeverBlocked ==
    /\ []((toggleReq = "none" /\ screen = "Main") => ENABLED HandleToggleOnline)
    /\ [][(toggleReq # "none" /\ toggleReq' = "none") => ~isTogglingOnline']_vars

\* Offline, with the location error of the last start still shown, no
\* tracking socket and no call of the hook suspended: the toggle was pressed
\* and its request is in flight.
C26_Witness ==
    /\ ~isOnline
    /\ isTogglingOnline
    /\ toggleReq = "on"
    /\ hooks[Home].error # "null"
    /\ hooks[Home].socketRef = "null"
    /\ Suspended(hooks[Home]) = 0

C22_UnauthorizedClearsSession ==
    [][(StatusReject("401") \/ FetchDeliveryReject("401"))
          => /\ ~isAuthenticated(session')
             /\ driverId' = "null"
             /\ ~isOnline'
             /\ "token" \notin session'.stored
             /\ cds'.request = "none" /\ ~cds'.fetching]_vars

\* C23: a failed read request (available deliveries, earnings summary and
\* today's earnings, delivery history) ends inside its fetch function: the
\* data it feeds is the empty list or the zero defaults, the loading flag is
\* false and the refresh that called it finishes.
C23_FailedReadsFallBack ==
    [][/\ (FetchReject \/ RefreshReject) => deliveries' = <<>>
       /\ RefreshReject => ~isRefreshing'
       /\ EarningsFetchReject
             => /\ earnings'.data = "zero"
                /\ ~earnings'.isLoading /\ ~earnings'.isRefreshing
       /\ HistoryFetchReject
             => /\ history'.data = "empty"
                /\ ~history'.isLoading /\ ~history'.isRefreshing]_vars

\* The read of EarningsScreen and the read of HistoryScreen have failed:
\* zero defaults and an empty list are shown, nothing is loading; the
\* request of HomeScreen is over.
C23_Witness ==
    /\ earnings = [data |-> "zero", isLoading |-> FALSE, isRefreshing |-> FALSE,
                   fetching |-> FALSE]
    /\ history = [data |-> "empty", isLoading |-> FALSE, isRefreshing |-> FALSE,
                  fetching |-> FALSE]
    /\ isOnline /\ fetchInFlight = 0 /\ ~isRefreshing /\ deliveries = <<>>

\* C24: CurrentDeliveryScreen sends no cancel request and no status-advance
\* request that the driver did not confirm in a prompt first.
C24_RequestsAreConfirmed == cds.request # "none" => cds.confirmed

\* C25: when a status-advance or cancel request fails, the delivery record
\* is what it was, a failure alert is on screen, no navigation happened and
\* isUpdating is false.
C25_FailureLeavesDelivery ==
    [][\A code \in Codes :
          StatusReject(code)
          => /\ cds'.delivery = cds.delivery
             /\ cds'.alert = "error"
             /\ screen' = screen
             /\ ~cds'.isUpdating
             /\ cds'.request = "none"]_vars

\* A confirmed cancel of a picked-up delivery failed: the alert is shown
\* over the unchanged record.
C25_Witness ==
    /\ screen = "CurrentDelivery"
    /\ cds.delivery = "PICKED_UP"
    /\ cds.alert = "error"
    /\ cds.confirmed
    /\ cds.request = "none"
    /\ ~cds.isUpdating

\* C29: right after an orderStatusUpdate event for the delivery on screen was
\* received on the connected socket, the status held locally is the status
\* of the event.
C29_StatusEventApplied == cds.lastEvent # "none" => cds.delivery = cds.lastEvent

\* C30: every non-terminal status offers an advance action and the advance
\* asks for the immediate successor: ACCEPTED -> PICKED_UP -> IN_TRANSIT ->
\* DELIVERED.
C30_AdvanceToSuccessor ==
    /\ cds.delivery = "ACCEPTED" => getStatusInfo(cds.delivery) = "PICKED_UP"
    /\ cds.delivery = "PICKED_UP" => getStatusInfo(cds.delivery) = "IN_TRANSIT"
    /\ cds.delivery = "IN_TRANSIT" => getStatusInfo(cds.delivery) = "DELIVERED"

\* C35: at most one accept request is in flight at any time, for the same
\* offer or for different offers.
C35_OneAcceptInFlight == SumOver(acceptPending, Ids) <= 1

\* C39: the response of an available-deliveries request that was in flight
\* when deliveryTaken(a) removed a does not bring a back (stated for the
\* response applied right after that deliveryTaken).
C39_FetchKeepsRemoval ==
    [][\A a \in Ids :
          (/\ lastEvent = [event |-> "deliveryTaken", id |-> a, present |-> TRUE]
           /\ \E data \in AvailableLists : FetchResolve(data) \/ RefreshResolve(data))
          => a \notin Range(deliveries')]_vars

\* C32: a newAvailableDelivery whose id is not listed is put at the head with
\* the other entries behind it in their order, and the vibration fires for
\* exactly the events that insert an offer.
C32_InsertAtHeadAndVibrate ==
    [][\A a \in Ids :
          NewAvailableDelivery(a)
          => /\ a \notin Range(deliveries)
                    => (Head(deliveries') = a /\ Tail(deliveries') = deliveries)
             /\ vibrate(deliveries, a) <=> deliveries' # deliveries]_vars

\* newAvailableDelivery("A") was handled while only "B" was listed: "A" is
\* at the head, "B" follows.
C32_Witness ==
    /\ lastEvent = [event |-> "newAvailableDelivery", id |-> "A", present |-> FALSE]
    /\ deliveries = <<"A", "B">>

C37_TrackingImpliesActiveWatch ==
    \A i \in Insts :
        hooks[i].isTracking => (HookActive(i) /\ hooks[i].watchIdRef)

\* C38: every updateLocation message carries the activeOrderId that is
\* current when it is emitted: once activeOrderId has changed, no message
\* goes out with the previous order id or without one.
C38_CarriesCurrentOrder ==
    [][sampler'.sent # sampler.sent => sampler'.carried = sampler'.currentOrder]_vars

\* C40: a login whose account role is not DRIVER throws an error and leaves
\* AsyncStorage, user, driver and isOnline as they were before the call.
C40_NonDriverLoginChangesNothing ==
    [][\A role \in Roles \ {"DRIVER"} :
           AuthLoginResolve(role)
           => /\ session'.thrown = "role"
              /\ session'.login = "idle"
              /\ session'.stored = session.stored
              /\ session'.user = session.user
              /\ driverId' = driverId
              /\ isOnline' = isOnline]_vars

\* A login was refused for its role and nothing is stored.
C40_Witness ==
    /\ session.thrown = "role"
    /\ session.login = "idle"
    /\ session.stored = {}
    /\ ~isAuthenticated(session)

\* C33: toggleOnline leaves isOnline alone until the request is answered; a
\* success sets it to the isOnline of the answer; a failure leaves isOnline
\* and driver as they are and raises the alert of handleToggleOnline.
C33_ToggleFollowsBackend ==
    [][/\ AuthToggle => isOnline' = isOnline
       /\ \A online \in BOOLEAN : AuthToggleResolve(online) => isOnline' = online
       /\ \A code \in Codes :
              AuthToggleReject(code)
              => /\ isOnline' = isOnline
                 /\ driverId' = driverId
                 /\ session'.alert]_vars

\* The request to go offline failed: the alert is up, the driver is still
\* online and no request is left in flight.
C33_Witness ==
    /\ session.alert
    /\ isOnline
    /\ driverId = "d1"
    /\ isAuthenticated(session)
    /\ toggleReq = "none"
    /\ ~isTogglingOnline

\* C36: isOnline implies that user and driver are both set, in every state
\* of AuthProvider.
C36_OnlineImpliesUserAndDriver ==
    isOnline => (session.user # "null" /\ driverId # "null")

\* C31: once login stored the token, each handshake of the tracking socket
\* and of the offer socket presents that token.
C31_HandshakePresentsStoredToken ==
    [][/\ (AuthConnectTracking /\ "token" \in session.stored)
              => session'.tracking = getItem(session, "token")
       /\ (AuthConnectOffer /\ "token" \in session.stored)
              => session'.offer = getItem(session, "token")]_vars

====
